---- MODULE Spec2Model ----
(***************************************************************************)
(* A model of telegra: the content-node type NodeElement with its          *)
(* serialisation to_dict, the Account record with attrs.evolve, and the    *)
(* Telegraph client whose coroutines share one held Account.               *)
(*                                                                         *)
(* Encoding of Python values.  A dict, a keyword-argument list and an      *)
(* attrs instance are functions from names to values.  A field or an       *)
(* argument whose value is None is left out of the function's domain, so   *)
(* "x is None" reads  "x" \notin DOMAIN obj.  A str inside a content list  *)
(* is the record [text |-> s]; it is the same value before and after       *)
(* serialisation.  An empty dict and an empty list are both << >>.         *)
(***************************************************************************)
EXTENDS Integers, Sequences, FiniteSets, TLC

\* node, wire: the caller's content node and its serialisation.
\* client:     the Telegraph instance (self): _session and account.
\* calls:      the coroutines the caller started, each at its suspension.
\* open:       the transport sessions that are open.
\* expected:   history variable, the Account the overlay rules of the
\*             specification give for the operations that have returned.
VARIABLES node, wire, client, calls, open, expected

nodeVars == <<node, wire>>
clientVars == <<client, calls, open, expected>>
vars == <<node, wire, client, calls, open, expected>>

(***************************************************************************)
(* Bounds of the content trees that are built.                             *)
(***************************************************************************)
MaxDepth == 2
MaxChildren == 2

(***************************************************************************)
(* Number of coroutines the caller starts on one client.                   *)
(***************************************************************************)
MaxCalls == 2

(***************************************************************************)
(* Content nodes                                                           *)
(***************************************************************************)
ALLOWED_TAGS ==
    { "a", "aside", "b", "blockquote", "br", "code", "em", "figcaption", "figure",
      "h3", "h4", "hr", "i", "iframe", "img", "li", "ol", "p", "pre", "s",
      "strong", "u", "ul", "video" }

\* Mutant of in_: the membership check is left out.
in_anything(value, options) == TRUE

\* attrs.validators.in_(options): the value must be a member of options.
in_(value, options) == value \in options

\* isinstance(child, str) for a member of a content list.
isinstance_str(child) == "text" \in DOMAIN child

\* NodeElement(**kw): the validators of the tag field run in __init__; the
\* instance holds the fields as given, attrs and children defaulting to None.
NodeElement(kw) ==
    IF in_(kw.tag, ALLOWED_TAGS)
    THEN [ok |-> TRUE, value |-> kw]
    ELSE [ok |-> FALSE, raised |-> "ValueError", tag |-> kw.tag]

\* Mutant of truthy: "is not None" in place of truthiness.
truthy_not_none(obj, name) == name \in DOMAIN obj

\* "if self.attrs:" and "if self.children:": neither None nor empty.
truthy(obj, name) == name \in DOMAIN obj /\ obj[name] # << >>

RECURSIVE to_dict(_)
to_dict(self) ==
    LET result0 == [tag |-> self.tag]
        result1 == IF truthy(self, "attrs")
                   THEN result0 @@ ("attrs" :> self.attrs)
                   ELSE result0
    IN  IF truthy(self, "children")
        THEN result1 @@
             ("children" :>
                 [i \in 1..Len(self.children) |->
                     IF isinstance_str(self.children[i])
                     THEN self.children[i]
                     ELSE to_dict(self.children[i])])
        ELSE result1

\* Height of a content tree: a node without element children has depth 1.
RECURSIVE Depth(_)
Depth(n) ==
    IF isinstance_str(n) THEN 0
    ELSE IF "children" \notin DOMAIN n \/ n.children = << >> THEN 1
    ELSE LET ds == {Depth(n.children[i]) : i \in 1..Len(n.children)}
         IN  1 + CHOOSE d \in ds : \A e \in ds : e <= d

\* The inputs of the node constructor.
NoNode == [ok |-> FALSE, raised |-> "", tag |-> ""]
NoWire == [none |-> TRUE]
TagCandidates == ALLOWED_TAGS \cup {"script", "div", ""}
SampleTags == {"p", "script"}
AttrChoices == { << >>, [href |-> "u"] }
Members == {[text |-> "hi"]} \cup
           (IF node.ok /\ Depth(node.value) < MaxDepth THEN {node.value} ELSE {})
ChildChoices == UNION {[1..k -> Members] : k \in 0..MaxChildren}
Optional(S) == {[present |-> FALSE]} \cup {[present |-> TRUE, value |-> v] : v \in S}
Kwargs(tag, attrs, children) ==
    [tag |-> tag]
      @@ (IF attrs.present THEN ("attrs" :> attrs.value) ELSE << >>)
      @@ (IF children.present THEN ("children" :> children.value) ELSE << >>)

\* n = NodeElement(tag, attrs, children): the caller holds the new node, or
\* the constructor raised.
Construct(tag, attrs, children) ==
    /\ node' = NodeElement(Kwargs(tag, attrs, children))
    /\ wire' = NoWire
    /\ UNCHANGED clientVars

\* w = n.to_dict()
Serialize ==
    /\ node.ok
    /\ wire = NoWire
    /\ wire' = to_dict(node.value)
    /\ UNCHANGED <<node, clientVars>>

(***************************************************************************)
(* Entities                                                                *)
(***************************************************************************)
RECURSIVE Str(_)
\* A string of n characters.
Str(n) ==
    IF n = 0 THEN ""
    ELSE IF n % 2 = 0 THEN LET half == Str(n \div 2) IN half \o half
    ELSE "x" \o Str(n - 1)

\* length(min, max): a bound that is None is << >>, a bound n is <<n>>.
length(min, max, value) ==
    /\ min # << >> => Len(value) >= min[1]
    /\ max # << >> => Len(value) <= max[1]

AccountFields ==
    {"short_name", "author_name", "author_url", "access_token", "auth_url", "page_count"}

\* Account(**kw): __init__ takes the six fields, short_name is required, and
\* the validators of short_name, author_name and author_url run.
Account(kw) ==
    IF ~(DOMAIN kw \subseteq AccountFields) \/ "short_name" \notin DOMAIN kw
    THEN [ok |-> FALSE, raised |-> "TypeError"]
    ELSE IF /\ length(<<1>>, <<32>>, kw.short_name)
            /\ "author_name" \in DOMAIN kw => length(<< >>, <<128>>, kw.author_name)
            /\ "author_url" \in DOMAIN kw => length(<< >>, <<512>>, kw.author_url)
    THEN [ok |-> TRUE, value |-> kw]
    ELSE [ok |-> FALSE, raised |-> "ValueError"]

\* Mutant of evolve: the instance is built from the changes alone.
evolve_replace(inst, names, changes) ==
    IF "account" \notin DOMAIN inst
    THEN [ok |-> FALSE, raised |-> "NotAnAttrsClassError"]
    ELSE Account(changes)

\* Mutant of evolve: without an instance, one is built from the changes.
evolve_install(inst, names, changes) ==
    IF "account" \notin DOMAIN inst
    THEN Account(changes)
    ELSE Account([k \in ((DOMAIN inst.account) \ names) \cup DOMAIN changes |->
                     IF k \in DOMAIN changes THEN changes[k] ELSE inst.account[k]])

\* attrs.evolve(inst, **changes): names are the keywords passed, changes the
\* ones among them whose value is not None.  Every field that is not passed
\* is read from inst, and the class is constructed anew (validators run).
evolve(inst, names, changes) ==
    IF "account" \notin DOMAIN inst
    THEN [ok |-> FALSE, raised |-> "NotAnAttrsClassError"]
    ELSE Account([k \in ((DOMAIN inst.account) \ names) \cup DOMAIN changes |->
                     IF k \in DOMAIN changes THEN changes[k] ELSE inst.account[k]])

PageFields ==
    {"path", "url", "title", "description", "author_name", "author_url",
     "image_url", "content", "views", "can_edit"}

\* Page(**kw), PageList(**kw), PageViews(**kw); Page(**None) is a TypeError.
Page(kw) ==
    IF /\ DOMAIN kw \subseteq PageFields
       /\ {"path", "url", "title", "description"} \subseteq DOMAIN kw
    THEN [ok |-> TRUE, value |-> kw]
    ELSE [ok |-> FALSE, raised |-> "TypeError"]

PageList(kw) ==
    IF DOMAIN kw = {"total_count", "pages"}
    THEN [ok |-> TRUE, value |-> kw]
    ELSE [ok |-> FALSE, raised |-> "TypeError"]

PageViews(kw) ==
    IF DOMAIN kw = {"views"}
    THEN [ok |-> TRUE, value |-> kw]
    ELSE [ok |-> FALSE, raised |-> "TypeError"]

\* TelegraphResult(**result)
TelegraphResult(body) == [ok |-> TRUE, value |-> body]

(***************************************************************************)
(* The client                                                              *)
(***************************************************************************)
CallIds == 1..MaxCalls
AccountOps == {"createAccount", "editAccountInfo", "getAccountInfo", "revokeAccessToken"}
PageOps == {"createPage", "editPage", "getPage", "getPageList", "getViews"}

\* Telegraph(session): the held Account is None; _session is the argument.
Telegraph(session) ==
    IF session.present THEN [_session |-> session.value] ELSE << >>

\* The identity of the session the caller made, and of ClientSession() made
\* by coroutine c.
CallerSession == 0
ClientSession(c) == c

Raise(exc, msg) == [ok |-> FALSE, raised |-> exc, msg |-> msg]
Proceed == [ok |-> TRUE]

\* "if x:" for an optional str or int argument.
given(kw, name, falsy) == name \in DOMAIN kw /\ kw[name] # falsy

\* The code of each operation before "await self._request(...)".
createPage_args(kw) ==
    IF ~(1 <= Len(kw.title) /\ Len(kw.title) <= 256)
    THEN Raise("ValueError", "Title must be between 1 and 256 characters")
    ELSE IF given(kw, "author_name", "") /\ ~(Len(kw.author_name) <= 128)
    THEN Raise("ValueError", "Author name must be between 0 and 128 characters")
    ELSE IF given(kw, "author_url", "") /\ ~(Len(kw.author_url) <= 512)
    THEN Raise("ValueError", "Author URL must be between 0 and 512 characters")
    ELSE Proceed

editPage_args(kw) ==
    IF ~(1 <= Len(kw.title) /\ Len(kw.title) <= 256)
    THEN Raise("ValueError", "Title must be between 1 and 256 characters")
    ELSE IF given(kw, "author_name", "") /\ ~(Len(kw.author_name) <= 128)
    THEN Raise("ValueError", "Author name must be between 0 and 128 characters")
    ELSE IF given(kw, "author_url", "") /\ ~(Len(kw.author_url) <= 512)
    THEN Raise("ValueError", "Author URL must be between 0 and 512 characters")
    ELSE Proceed

getPageList_args(kw) ==
    IF ~(0 <= kw.offset)
    THEN Raise("ValueError", "Offset must be a non-negative integer")
    ELSE IF ~(0 <= kw.limit /\ kw.limit <= 200)
    THEN Raise("ValueError", "Limit must be between 0 and 200")
    ELSE Proceed

\* Mutant of getViews_args: the check of hour is left out.
getViews_args_no_hour(kw) ==
    IF given(kw, "year", 0) /\ ~(2000 <= kw.year /\ kw.year <= 2100)
    THEN Raise("ValueError", "Year must be between 2000 and 2100")
    ELSE IF given(kw, "month", 0) /\ ~(1 <= kw.month /\ kw.month <= 12)
    THEN Raise("ValueError", "Month must be between 1 and 12")
    ELSE IF given(kw, "day", 0) /\ ~(1 <= kw.day /\ kw.day <= 31)
    THEN Raise("ValueError", "Day must be between 1 and 31")
    ELSE Proceed

getViews_args(kw) ==
    IF given(kw, "year", 0) /\ ~(2000 <= kw.year /\ kw.year <= 2100)
    THEN Raise("ValueError", "Year must be between 2000 and 2100")
    ELSE IF given(kw, "month", 0) /\ ~(1 <= kw.month /\ kw.month <= 12)
    THEN Raise("ValueError", "Month must be between 1 and 12")
    ELSE IF given(kw, "day", 0) /\ ~(1 <= kw.day /\ kw.day <= 31)
    THEN Raise("ValueError", "Day must be between 1 and 31")
    ELSE IF given(kw, "hour", 0) /\ ~(0 <= kw.hour /\ kw.hour <= 24)
    THEN Raise("ValueError", "Hour must be between 0 and 24")
    ELSE Proceed

before_request(op, kw) ==
    CASE op = "createPage" -> createPage_args(kw)
      [] op = "editPage" -> editPage_args(kw)
      [] op = "getPageList" -> getPageList_args(kw)
      [] op = "getViews" -> getViews_args(kw)
      [] OTHER -> Proceed

\* Mutant of request_result: the envelope's ok is not looked at.
request_result_unchecked(resp) ==
    IF resp.kind = "conn_error" THEN Raise("ClientConnectionError", "")
    ELSE IF resp.kind = "http_error" THEN Raise("ClientResponseError", "")
    ELSE TelegraphResult(resp.body)

\* _request from the response on: raise_for_status, the envelope's ok, and
\* TelegraphResult(**result).  A failed connection raises out of session.post.
request_result(resp) ==
    IF resp.kind = "conn_error" THEN Raise("ClientConnectionError", "")
    ELSE IF resp.kind = "http_error" THEN Raise("ClientResponseError", "")
    ELSE IF ~resp.body.ok
    THEN IF "error" \in DOMAIN resp.body
         THEN Raise("TelegraphError", resp.body.error)
         ELSE Raise("KeyError", "error")
    ELSE TelegraphResult(resp.body)

\* Mutant of closes_session: the session is closed whoever made it.
closes_session_always(s) == TRUE

\* "finally: if self._session is None: await session.close()"
closes_session(s) == "_session" \notin DOMAIN s

\* What a coroutine hands to its caller.
Returned(s, ent) ==
    [self |-> s,
     out |-> [kind |-> "return"] @@ (IF ent.present THEN ("value" :> ent.value) ELSE << >>)]
Raised(s, exc, msg) == [self |-> s, out |-> [kind |-> "raise", exc |-> exc, msg |-> msg]]
held(s) == IF "account" \in DOMAIN s
           THEN [present |-> TRUE, value |-> s.account]
           ELSE [present |-> FALSE]
assign_account(s, acc) ==
    [k \in DOMAIN s \cup {"account"} |-> IF k = "account" THEN acc ELSE s[k]]

\* "if response.result:"
has_result(response) == "result" \in DOMAIN response /\ response.result # << >>

\* Mutant of createAccount_done: the result is held before it is validated.
createAccount_done_eager(s, response) ==
    IF "result" \notin DOMAIN response THEN Raised(s, "TypeError", "")
    ELSE LET a == Account(response.result)
         IN  IF a.ok
             THEN Returned(assign_account(s, a.value), [present |-> TRUE, value |-> a.value])
             ELSE Raised(assign_account(s, response.result), a.raised, "")

\* The code of each operation after "response = await self._request(...)".
createAccount_done(s, response) ==
    IF "result" \notin DOMAIN response THEN Raised(s, "TypeError", "")
    ELSE LET a == Account(response.result)
         IN  IF a.ok
             THEN Returned(assign_account(s, a.value), [present |-> TRUE, value |-> a.value])
             ELSE Raised(s, a.raised, "")

editAccountInfo_done(s, response) ==
    IF has_result(response)
    THEN LET a == evolve(s, DOMAIN response.result, response.result)
         IN  IF a.ok
             THEN Returned(assign_account(s, a.value), [present |-> TRUE, value |-> a.value])
             ELSE Raised(s, a.raised, "")
    ELSE Returned(s, held(s))

getAccountInfo_done(s, response) ==
    IF has_result(response)
    THEN LET a == evolve(s, DOMAIN response.result, response.result)
         IN  IF a.ok
             THEN Returned(assign_account(s, a.value), [present |-> TRUE, value |-> a.value])
             ELSE Raised(s, a.raised, "")
    ELSE Returned(s, held(s))

\* response.result.get(name) for the two names: None when the key is missing.
revoke_changes(result) ==
    [k \in {"access_token", "auth_url"} \cap DOMAIN result |-> result[k]]

revokeAccessToken_done(s, response) ==
    IF has_result(response)
    THEN LET a == evolve(s, {"access_token", "auth_url"}, revoke_changes(response.result))
         IN  IF a.ok
             THEN Returned(assign_account(s, a.value), [present |-> TRUE, value |-> a.value])
             ELSE Raised(s, a.raised, "")
    ELSE Returned(s, held(s))

entity_done(s, ent) ==
    IF ent.ok THEN Returned(s, [present |-> TRUE, value |-> ent.value])
    ELSE Raised(s, ent.raised, "")

page_done(s, response) ==
    IF "result" \notin DOMAIN response THEN Raised(s, "TypeError", "")
    ELSE entity_done(s, Page(response.result))

getPageList_done(s, response) ==
    IF "result" \notin DOMAIN response THEN Raised(s, "TypeError", "")
    ELSE IF "pages" \notin DOMAIN response.result THEN Raised(s, "KeyError", "pages")
    ELSE LET pages == [i \in 1..Len(response.result.pages) |->
                          Page(response.result.pages[i])]
         IN  IF \E i \in 1..Len(pages) : ~pages[i].ok
             THEN Raised(s, "TypeError", "")
             ELSE entity_done(s,
                    PageList([k \in DOMAIN response.result |->
                                IF k = "pages"
                                THEN [i \in 1..Len(pages) |-> pages[i].value]
                                ELSE response.result[k]]))

getViews_done(s, response) ==
    IF "result" \notin DOMAIN response THEN Raised(s, "TypeError", "")
    ELSE entity_done(s, PageViews(response.result))

\* The operation from the return (or the exception) of _request on.
after_request(op, s, res) ==
    IF ~res.ok THEN Raised(s, res.raised, res.msg)
    ELSE CASE op = "createAccount" -> createAccount_done(s, res.value)
           [] op = "editAccountInfo" -> editAccountInfo_done(s, res.value)
           [] op = "getAccountInfo" -> getAccountInfo_done(s, res.value)
           [] op = "revokeAccessToken" -> revokeAccessToken_done(s, res.value)
           [] op = "getPageList" -> getPageList_done(s, res.value)
           [] op = "getViews" -> getViews_done(s, res.value)
           [] OTHER -> page_done(s, res.value)

NoResponse == [kind |-> "none"]

\* The Account the specification's overlay rules give: replaced by
\* createAccount, the returned fields laid over it by the other three,
\* revokeAccessToken laying over access_token and auth_url only.
Overlay(acc, changes) ==
    [k \in DOMAIN acc \cup DOMAIN changes |->
        IF k \in DOMAIN changes THEN changes[k] ELSE acc[k]]
Foreseen(op, e, response) ==
    IF op = "createAccount" THEN [account |-> response.result]
    ELSE IF ~has_result(response) \/ "account" \notin DOMAIN e THEN e
    ELSE IF op = "revokeAccessToken"
    THEN [account |-> Overlay(e.account, revoke_changes(response.result))]
    ELSE [account |-> Overlay(e.account, response.result)]

\* Coroutine c ends: the operation's remaining code runs without suspension.
Finish(c, resp, res) ==
    LET call == calls[c]
        fin == after_request(call.op, client, res)
    IN  /\ client' = fin.self
        /\ calls' = [calls EXCEPT ![c] =
                        [pc |-> "done", op |-> call.op, kw |-> call.kw,
                         posts |-> call.posts, resp |-> resp, out |-> fin.out]]
        /\ expected' = IF fin.out.kind = "return" /\ call.op \in AccountOps
                       THEN Foreseen(call.op, expected, res.value)
                       ELSE expected

\* The caller starts coroutine c; it runs to its first suspension: the
\* argument checks, then _request up to session.post.
Invoke(c, op, kw) ==
    /\ calls[c].pc = "new"
    /\ c > 1 => calls[c - 1].pc # "new"
    /\ LET pre == before_request(op, kw)
           session == IF "_session" \in DOMAIN client THEN client._session ELSE ClientSession(c)
           opened == open \cup (IF "_session" \in DOMAIN client THEN {} ELSE {session})
       IN  IF ~pre.ok
           THEN /\ calls' = [calls EXCEPT ![c] =
                                [pc |-> "done", op |-> op, kw |-> kw, posts |-> 0,
                                 resp |-> NoResponse,
                                 out |-> [kind |-> "raise", exc |-> pre.raised,
                                          msg |-> pre.msg]]]
                /\ UNCHANGED <<client, open, expected>>
           ELSE IF session \notin opened
           THEN \* session.post on a closed session raises RuntimeError
                /\ calls' = [calls EXCEPT ![c] =
                                [pc |-> "done", op |-> op, kw |-> kw, posts |-> 0,
                                 resp |-> NoResponse,
                                 out |-> [kind |-> "raise", exc |-> "RuntimeError",
                                          msg |-> "Session is closed"]]]
                /\ UNCHANGED <<client, open, expected>>
           ELSE /\ calls' = [calls EXCEPT ![c] =
                                [pc |-> "post", op |-> op, kw |-> kw, posts |-> 1,
                                 session |-> session]]
                /\ open' = opened
                /\ UNCHANGED <<client, expected>>
    /\ UNCHANGED nodeVars

\* The transport resumes coroutine c with the response (or the failure).
\* Entering "async with session.post(...)" and "await resp.json()" are one
\* step: between them the coroutine reads and writes nothing of the client.
\* The rest of _request runs; then either session.close() is awaited or the
\* operation goes on at once.
Respond(c, resp) ==
    /\ calls[c].pc = "post"
    /\ LET res == request_result(resp)
       IN  IF closes_session(client)
           THEN /\ calls' = [calls EXCEPT ![c] =
                                [pc |-> "close", op |-> calls[c].op, kw |-> calls[c].kw,
                                 posts |-> calls[c].posts, session |-> calls[c].session,
                                 resp |-> resp, res |-> res]]
                /\ UNCHANGED <<client, open, expected>>
           ELSE /\ Finish(c, resp, res)
                /\ UNCHANGED open
    /\ UNCHANGED nodeVars

\* session.close() returns to coroutine c, and _request returns or raises.
Closed(c) ==
    /\ calls[c].pc = "close"
    /\ open' = open \ {calls[c].session}
    /\ Finish(c, calls[c].resp, calls[c].res)
    /\ UNCHANGED nodeVars

(***************************************************************************)
(* Inputs                                                                  *)
(***************************************************************************)
Json(body) == [kind |-> "json", body |-> body]
Failures(errors) ==
    {[kind |-> "conn_error"], [kind |-> "http_error"]}
      \cup {Json([ok |-> FALSE, error |-> e]) : e \in errors}
Results(rs) == {Json([ok |-> TRUE, result |-> r]) : r \in rs}
NoResult == {Json([ok |-> TRUE])}

APage == [path |-> "p-1", url |-> "u", title |-> "t", description |-> "d"]
PageResults == {APage, [path |-> "p-1"]}
PageListResults == {[total_count |-> 1, pages |-> <<APage>>],
                    [total_count |-> 1, pages |-> <<[path |-> "p-1"]>>]}
ViewsResults == {[views |-> 3], << >>}
FullAccount == [short_name |-> "s1", access_token |-> "T1", auth_url |-> "U1"]

\* The responses of the whole client's specification.
Responses(op) ==
    CASE op = "createAccount" ->
            Failures({"SHORT_NAME_REQUIRED"}) \cup Results({FullAccount, [short_name |-> ""]})
      [] op \in {"editAccountInfo", "getAccountInfo"} ->
            Failures({"ACCESS_TOKEN_INVALID"})
              \cup Results({[short_name |-> "new"], [short_name |-> ""]})
      [] op = "revokeAccessToken" ->
            Failures({"ACCESS_TOKEN_INVALID"})
              \cup Results({[access_token |-> "T2", auth_url |-> "U2"]})
      [] op = "getPageList" -> Failures({"ACCESS_TOKEN_INVALID"}) \cup Results(PageListResults)
      [] op = "getViews" -> Failures({"PAGE_NOT_FOUND"}) \cup Results(ViewsResults)
      [] OTHER -> Failures({"PAGE_NOT_FOUND"}) \cup Results(PageResults)

AccountKw(op) ==
    IF op = "createAccount" THEN [short_name |-> "s1"] ELSE [access_token |-> "T1"]
PageKw(op) ==
    CASE op = "createPage" ->
            {[access_token |-> "T1", title |-> t, content |-> << >>] : t \in {"", "t"}}
      [] op = "editPage" ->
            {[access_token |-> "T1", path |-> "p-1", title |-> "t", content |-> << >>,
              author_name |-> a] : a \in {"", Str(129)}}
      [] op = "getPage" -> {[path |-> "p-1"]}
      [] op = "getPageList" ->
            {[access_token |-> "T1", offset |-> o, limit |-> 50] : o \in {-1, 0}}
      [] op = "getViews" -> {[path |-> "p-1"], [path |-> "p-1", hour |-> 25]}

InitClient ==
    /\ client \in {Telegraph(s) : s \in Optional({CallerSession})}
    /\ open = (IF "_session" \in DOMAIN client THEN {client._session} ELSE {})
    /\ calls = [c \in CallIds |-> [pc |-> "new"]]
    /\ expected = << >>

Init ==
    /\ InitClient
    /\ node = NoNode
    /\ wire = NoWire

Next ==
    \/ \E c \in CallIds, op \in AccountOps : Invoke(c, op, AccountKw(op))
    \/ \E c \in CallIds, op \in PageOps : \E kw \in PageKw(op) : Invoke(c, op, kw)
    \/ \E c \in CallIds :
          /\ calls[c].pc = "post"
          /\ \E resp \in Responses(calls[c].op) : Respond(c, resp)
    \/ \E c \in CallIds : Closed(c)

Spec == Init /\ [][Next]_vars

\* The responses and the arguments of the account operations' specification.
AccountResponses(op) ==
    CASE op = "createAccount" ->
            Failures({"SHORT_NAME_REQUIRED"})
              \cup Results({FullAccount, [short_name |-> "s2"]}) \cup NoResult
      [] op \in {"editAccountInfo", "getAccountInfo"} ->
            {Json([ok |-> FALSE, error |-> "ACCESS_TOKEN_INVALID"])}
              \cup Results({[short_name |-> "new"],
                            [author_name |-> "an", page_count |-> 3],
                            [access_token |-> "T2", auth_url |-> "U2"],
                            [short_name |-> Str(33)],
                            << >>})
              \cup NoResult
      [] op = "revokeAccessToken" ->
            {Json([ok |-> FALSE, error |-> "ACCESS_TOKEN_INVALID"])}
              \cup Results({[access_token |-> "T2", auth_url |-> "U2"],
                            [access_token |-> "T2"],
                            [short_name |-> "zz", auth_url |-> "U2"],
                            << >>})
              \cup NoResult

NextAccount ==
    \/ \E c \in CallIds, op \in AccountOps : Invoke(c, op, AccountKw(op))
    \/ \E c \in CallIds :
          /\ calls[c].pc = "post"
          /\ \E resp \in AccountResponses(calls[c].op) : Respond(c, resp)
    \/ \E c \in CallIds : Closed(c)

SpecAccount == Init /\ [][NextAccount]_vars

\* The arguments at and around the bounds of the argument checks; one
\* coroutine is started.
Opt(name, o) == IF o.present THEN name :> o.value ELSE << >>
BoundaryKw(op) ==
    CASE op \in {"createPage", "editPage"} ->
            {[access_token |-> "T1", title |-> t, content |-> << >>]
                @@ Opt("author_name", a) @@ Opt("author_url", u)
                @@ (IF op = "editPage" THEN [path |-> "p-1"] ELSE << >>) :
             t \in {"", "t", Str(256), Str(257)},
             a \in Optional({"", "n", Str(128), Str(129)}),
             u \in Optional({"", Str(512), Str(513)})}
      [] op = "getPage" -> {[path |-> "p-1"]}
      [] op = "getPageList" ->
            {[access_token |-> "T1", offset |-> o, limit |-> l] :
             o \in {-1, 0, 7}, l \in {-1, 0, 50, 200, 201}}
      [] op = "getViews" ->
            {[path |-> "p-1"] @@ Opt("year", y) @@ Opt("month", m)
                @@ Opt("day", d) @@ Opt("hour", h) :
             y \in Optional({0, 1999, 2000, 2100, 2101}),
             m \in Optional({0, 1, 12, 13}),
             d \in Optional({0, 1, 31, 32}),
             h \in Optional({-1, 0, 24, 25})}
BoundaryResponses(op) ==
    {[kind |-> "http_error"]} \cup
    {Json([ok |-> TRUE, result |-> r]) :
        r \in CASE op = "getPageList" -> {[total_count |-> 0, pages |-> << >>]}
                [] op = "getViews" -> {[views |-> 3]}
                [] OTHER -> {APage}}

NextArgs ==
    \/ \E op \in PageOps : \E kw \in BoundaryKw(op) : Invoke(1, op, kw)
    \/ /\ calls[1].pc = "post"
       /\ \E resp \in BoundaryResponses(calls[1].op) : Respond(1, resp)
    \/ Closed(1)

SpecArgs == Init /\ [][NextArgs]_vars

InitNode ==
    /\ node = NoNode
    /\ wire = NoWire
    /\ client = Telegraph([present |-> FALSE])
    /\ open = {}
    /\ calls = [c \in CallIds |-> [pc |-> "new"]]
    /\ expected = << >>

NextNode ==
    \/ \E tag \in TagCandidates :
          Construct(tag, [present |-> FALSE], [present |-> FALSE])
    \/ \E tag \in SampleTags, attrs \in Optional(AttrChoices),
          children \in Optional(ChildChoices) :
          Construct(tag, attrs, children)
    \/ Serialize

SpecNode == InitNode /\ [][NextNode]_vars

(***************************************************************************)
(* Claims                                                                  *)
(***************************************************************************)
Started(c) == calls[c].pc # "new"
Done(c) == calls[c].pc = "done"
Ends(c) == calls[c].pc # "done" /\ calls'[c].pc = "done"
Failed(c) == Done(c) /\ calls[c].out.kind = "raise"
GotJson(c) == calls[c].resp.kind = "json"
GotResult(c) == GotJson(c) /\ calls[c].resp.body.ok /\ has_result(calls[c].resp.body)
Provided(kw, name) == name \in DOMAIN kw

\* The argument table of the operations.
ViolatesTable(op, kw) ==
    CASE op \in {"createPage", "editPage"} ->
            \/ Len(kw.title) \notin 1..256
            \/ Provided(kw, "author_name") /\ Len(kw.author_name) > 128
            \/ Provided(kw, "author_url") /\ Len(kw.author_url) > 512
      [] op = "getPageList" -> kw.offset < 0 \/ kw.limit \notin 0..200
      [] op = "getViews" ->
            \/ Provided(kw, "year") /\ kw.year # 0 /\ kw.year \notin 2000..2100
            \/ Provided(kw, "month") /\ kw.month # 0 /\ kw.month \notin 1..12
            \/ Provided(kw, "day") /\ kw.day # 0 /\ kw.day \notin 1..31
            \/ Provided(kw, "hour") /\ kw.hour # 0 /\ kw.hour \notin 0..24
      [] OTHER -> FALSE

\* C1: a call whose arguments violate the argument table ends in a
\* validation error (ValueError) without one POST on the transport and
\* without ever waiting for a response.
C1_InvalidArgsNeverPosted ==
    \A c \in CallIds :
        Started(c) /\ ViolatesTable(calls[c].op, calls[c].kw) =>
            /\ Done(c)
            /\ calls[c].posts = 0
            /\ calls[c].resp = NoResponse
            /\ calls[c].out.kind = "raise"
            /\ calls[c].out.exc = "ValueError"

\* getViews with a valid year and hour 25 ended in an error without a POST.
C1_Witness ==
    /\ Done(1)
    /\ calls[1].op = "getViews"
    /\ Provided(calls[1].kw, "hour") /\ calls[1].kw.hour = 25
    /\ Provided(calls[1].kw, "year") /\ calls[1].kw.year = 2000
    /\ calls[1].posts = 0
    /\ calls[1].out.kind = "raise"

\* A response every operation accepts.
GoodResult(op) ==
    CASE op = "createAccount" -> FullAccount
      [] op \in {"editAccountInfo", "getAccountInfo"} -> [short_name |-> "new"]
      [] op = "revokeAccessToken" -> [access_token |-> "T2", auth_url |-> "U2"]
      [] op = "getPageList" -> [total_count |-> 1, pages |-> <<APage>>]
      [] op = "getViews" -> [views |-> 3]
      [] OTHER -> APage

\* C2: the step in which a call fails, whatever the failure, leaves the
\* client (held Account and session) as it was; only a call that returns
\* changes the client; and whatever failed before, a call that receives a
\* valid response returns, an account operation returning the Account that
\* is held from then on.
C2_NoPartialSuccess ==
    [][ /\ \A c \in CallIds :
              Ends(c) =>
                /\ calls'[c].out.kind = "raise" => client' = client
                /\ ( /\ calls'[c].resp = Json([ok |-> TRUE, result |-> GoodResult(calls'[c].op)])
                     /\ calls'[c].op \in AccountOps \ {"createAccount"}
                            => "account" \in DOMAIN client )
                   => /\ calls'[c].out.kind = "return"
                      /\ "value" \in DOMAIN calls'[c].out
                      /\ calls'[c].op \in AccountOps =>
                            /\ "account" \in DOMAIN client'
                            /\ client'.account = calls'[c].out.value
        /\ client' # client =>
              \E c \in CallIds : Ends(c) /\ calls'[c].out.kind = "return"
      ]_vars

\* createAccount returned, and then editAccountInfo failed when the Account
\* was built from its result: the held Account is still the one created.
C2_Witness ==
    /\ "account" \in DOMAIN client /\ client.account = FullAccount
    /\ \E c, d \in CallIds :
          /\ Done(c) /\ calls[c].op = "createAccount" /\ calls[c].out.kind = "return"
          /\ Failed(d) /\ calls[d].op = "editAccountInfo"
          /\ calls[d].resp = Json([ok |-> TRUE, result |-> [short_name |-> ""]])
          /\ calls[d].out.exc = "ValueError"

\* The first call failed before the second was started, and the second
\* returned the Account it installed.
C2_WitnessLater ==
    /\ Failed(1) /\ calls[1].resp = NoResponse
    /\ Done(2) /\ calls[2].op = "createAccount" /\ calls[2].out.kind = "return"
    /\ "account" \in DOMAIN client /\ client.account = calls[2].out.value

\* C3: editAccountInfo and getAccountInfo, returning with a non-empty
\* result while an Account is held, leave every returned field with the
\* returned value and every other field as it was, and return the held
\* Account.
C3_Overlay ==
    [][ \A c \in CallIds :
          ( /\ Ends(c)
            /\ calls'[c].op \in {"editAccountInfo", "getAccountInfo"}
            /\ calls'[c].out.kind = "return"
            /\ calls'[c].resp.kind = "json"
            /\ has_result(calls'[c].resp.body)
            /\ "account" \in DOMAIN client )
          => LET result == calls'[c].resp.body.result
                 before == client.account
                 after == client'.account
             IN  /\ \A f \in AccountFields :
                       IF f \in DOMAIN result
                       THEN f \in DOMAIN after /\ after[f] = result[f]
                       ELSE /\ (f \in DOMAIN after) = (f \in DOMAIN before)
                            /\ f \in DOMAIN before => after[f] = before[f]
                 /\ calls'[c].out.value = after
      ]_vars

\* The example of the specification: access_token "T1" from createAccount,
\* then editAccountInfo returning only short_name "new".
C3_Witness ==
    /\ "account" \in DOMAIN client
    /\ client.account = [short_name |-> "new", access_token |-> "T1", auth_url |-> "U1"]
    /\ \E c \in CallIds :
          /\ Done(c) /\ calls[c].op = "editAccountInfo"
          /\ calls[c].out.kind = "return"
          /\ calls[c].resp = Json([ok |-> TRUE, result |-> [short_name |-> "new"]])
          /\ calls[c].out.value = client.account

\* C4: revokeAccessToken, returning with a non-empty result while an
\* Account is held, leaves short_name, author_name, author_url and
\* page_count as they were, and gives access_token and auth_url each the
\* returned value when the result holds it and its prior value when the
\* result omits it.
C4_RevokeOverlay ==
    [][ \A c \in CallIds :
          ( /\ Ends(c)
            /\ calls'[c].op = "revokeAccessToken"
            /\ calls'[c].out.kind = "return"
            /\ calls'[c].resp.kind = "json"
            /\ has_result(calls'[c].resp.body)
            /\ "account" \in DOMAIN client )
          => LET result == calls'[c].resp.body.result
                 before == client.account
                 after == client'.account
             IN  \A f \in AccountFields :
                    IF f \in {"access_token", "auth_url"} /\ f \in DOMAIN result
                    THEN f \in DOMAIN after /\ after[f] = result[f]
                    ELSE /\ (f \in DOMAIN after) = (f \in DOMAIN before)
                         /\ f \in DOMAIN before => after[f] = before[f]
      ]_vars

\* What does hold of revokeAccessToken: the four other fields are kept, and
\* access_token and auth_url each take the returned value, or None when the
\* result omits it.
C4_RevokeAsCoded ==
    [][ \A c \in CallIds :
          ( /\ Ends(c)
            /\ calls'[c].op = "revokeAccessToken"
            /\ calls'[c].out.kind = "return"
            /\ calls'[c].resp.kind = "json"
            /\ has_result(calls'[c].resp.body)
            /\ "account" \in DOMAIN client )
          => LET result == calls'[c].resp.body.result
                 before == client.account
                 after == client'.account
             IN  \A f \in AccountFields :
                    IF f \in {"access_token", "auth_url"}
                    THEN /\ (f \in DOMAIN after) = (f \in DOMAIN result)
                         /\ f \in DOMAIN result => after[f] = result[f]
                    ELSE /\ (f \in DOMAIN after) = (f \in DOMAIN before)
                         /\ f \in DOMAIN before => after[f] = before[f]
      ]_vars

InFlight == {c \in CallIds : calls[c].pc \in {"post", "close"}}

\* C5: with a session supplied by the caller, every request in flight uses
\* it, it stays open and no other session is ever made; with none, every
\* request in flight has a session of its own that is open, and the open
\* sessions are those of the requests in flight, so that none is open once
\* every call has ended, whichever way it ended.
C5_ScopedSession ==
    IF "_session" \in DOMAIN client
    THEN /\ client._session = CallerSession
         /\ open = {CallerSession}
         /\ \A c \in InFlight : calls[c].session = CallerSession
    ELSE /\ \A c \in InFlight : calls[c].session = ClientSession(c)
         /\ open = {calls[c].session : c \in InFlight}
         /\ CallerSession \notin open

\* Without a supplied session, every call has ended, one on a non-2xx
\* status and one with a value, and no session is open.
C5_Witness ==
    /\ "_session" \notin DOMAIN client
    /\ \A c \in CallIds : Done(c)
    /\ \E c \in CallIds : calls[c].resp.kind = "http_error"
    /\ \E c \in CallIds : calls[c].out.kind = "return"
    /\ open = {}

C5_WitnessSupplied ==
    /\ "_session" \in DOMAIN client
    /\ \A c \in CallIds : Done(c)
    /\ \E c \in CallIds : calls[c].resp.kind = "conn_error"
    /\ \E c \in CallIds : GotJson(c) /\ ~calls[c].resp.body.ok
    /\ open = {CallerSession}

\* C6: a call that received an envelope with ok=false ends raising
\* TelegraphError with the envelope's error string, and a call returns an
\* entity only after an envelope with ok=true.
C6_ErrorEnvelope ==
    \A c \in CallIds :
        Done(c) =>
            /\ GotJson(c) /\ ~calls[c].resp.body.ok =>
                  /\ calls[c].out.kind = "raise"
                  /\ calls[c].out.exc = "TelegraphError"
                  /\ calls[c].out.msg = calls[c].resp.body.error
            /\ calls[c].out.kind = "return" => GotJson(c) /\ calls[c].resp.body.ok

\* getPage answered {"ok": false, "error": "PAGE_NOT_FOUND"}.
C6_Witness ==
    \E c \in CallIds :
        /\ Done(c) /\ calls[c].op = "getPage"
        /\ calls[c].resp = Json([ok |-> FALSE, error |-> "PAGE_NOT_FOUND"])
        /\ calls[c].out = [kind |-> "raise", exc |-> "TelegraphError", msg |-> "PAGE_NOT_FOUND"]

\* The wire form the specification describes, node by node.
RECURSIVE WireForm(_, _)
WireForm(n, w) ==
    /\ DOMAIN w \subseteq {"tag", "attrs", "children"}
    /\ "tag" \in DOMAIN w /\ w.tag = n.tag
    /\ ("attrs" \in DOMAIN w) = ("attrs" \in DOMAIN n /\ n.attrs # << >>)
    /\ "attrs" \in DOMAIN w => w.attrs = n.attrs
    /\ ("children" \in DOMAIN w) = ("children" \in DOMAIN n /\ n.children # << >>)
    /\ "children" \in DOMAIN w =>
          /\ Len(w.children) = Len(n.children)
          /\ \A i \in 1..Len(n.children) :
                IF "text" \in DOMAIN n.children[i]
                THEN w.children[i] = n.children[i]
                ELSE WireForm(n.children[i], w.children[i])

\* C7: the serialisation of a constructed tree has, at every Element, the
\* key tag, the key attrs iff attrs is neither None nor empty, the key
\* children iff children is neither None nor empty, the children in their
\* order, Element children serialised by the same rule and Text children
\* unchanged; and every constructed tree can be serialised.
C7_WireForm ==
    /\ wire # NoWire => node.ok /\ WireForm(node.value, wire)
    /\ node.ok /\ wire = NoWire => ENABLED Serialize

\* A tree of depth 2 whose root has empty attrs and both a Text and an
\* Element child, the Element child with attrs and without children.
C7_Witness ==
    /\ wire # NoWire
    /\ node.ok
    /\ "attrs" \in DOMAIN node.value /\ node.value.attrs = << >>
    /\ "children" \in DOMAIN node.value
    /\ Len(node.value.children) = 2
    /\ node.value.children[1] = [text |-> "hi"]
    /\ "tag" \in DOMAIN node.value.children[2]
    /\ "attrs" \in DOMAIN node.value.children[2]
    /\ node.value.children[2].attrs = [href |-> "u"]
    /\ "attrs" \notin DOMAIN wire
    /\ wire.children[1] = [text |-> "hi"]

\* The tags of the Elements of a tree, or of a wire form.
RECURSIVE Tags(_)
Tags(n) ==
    IF "text" \in DOMAIN n THEN {}
    ELSE {n.tag} \cup
         (IF "children" \in DOMAIN n
          THEN UNION {Tags(n.children[i]) : i \in 1..Len(n.children)}
          ELSE {})
Attempted == IF node.ok THEN node.value.tag ELSE node.tag
TheTags ==
    { "a", "aside", "b", "blockquote", "br", "code", "em", "figcaption", "figure",
      "h3", "h4", "hr", "i", "iframe", "img", "li", "ol", "p", "pre", "s",
      "strong", "u", "ul", "video" }

\* C8 as stated: construction succeeds exactly for the tags of a closed set
\* of 21.
C8_TwentyOneTags ==
    node # NoNode =>
        /\ node.ok = (Attempted \in ALLOWED_TAGS)
        /\ Cardinality(ALLOWED_TAGS) = 21

\* C8, amended: construction succeeds exactly for the tags of the closed set
\* of 24 (a, aside, b, blockquote, br, code, em, figcaption, figure, h3, h4,
\* hr, i, iframe, img, li, ol, p, pre, s, strong, u, ul, video); a tag
\* outside it is rejected with a validation error at construction, and no
\* Element with another tag is in a tree or in a serialisation.
C8_ClosedTagSet ==
    /\ Cardinality(ALLOWED_TAGS) = 24
    /\ node # NoNode =>
          /\ node.ok = (Attempted \in TheTags)
          /\ ~node.ok => node.raised = "ValueError"
    /\ node.ok => Tags(node.value) \subseteq TheTags
    /\ wire # NoWire => Tags(wire) \subseteq TheTags

\* NodeElement("script") was rejected.
C8_Witness ==
    /\ ~node.ok
    /\ node.raised = "ValueError"
    /\ node.tag = "script"

\* C9: the held Account is the one the overlay rules give when the account
\* operations that returned are applied one after another in the order in
\* which their responses reached the operations (the order in which
\* _request returned to them), createAccount replacing it wholesale.
C9_OverlaysInOrder ==
    /\ ("account" \in DOMAIN client) = ("account" \in DOMAIN expected)
    /\ "account" \in DOMAIN client => client.account = expected.account

\* The part of C9 that the omitted fields of revokeAccessToken do not touch:
\* as long as every revokeAccessToken that returned was given both fields,
\* the held Account is the one C9 states, under every interleaving.
C9_UnlessFieldOmitted ==
    ( \A c \in CallIds :
         Done(c) /\ calls[c].op = "revokeAccessToken" /\ GotResult(c) =>
            {"access_token", "auth_url"} \subseteq DOMAIN calls[c].resp.body.result )
    => C9_OverlaysInOrder

\* C10: while no Account is held, editAccountInfo, getAccountInfo and
\* revokeAccessToken leave it absent: on a non-empty result they raise
\* after their one POST, on an empty or absent result of an ok=true
\* envelope they return None; and only createAccount turns the held Account
\* from absent to present.
C10_NoAccountInstalled ==
    [][ /\ \A c \in CallIds :
              ( /\ Ends(c)
                /\ calls'[c].op \in AccountOps \ {"createAccount"}
                /\ "account" \notin DOMAIN client )
              => /\ "account" \notin DOMAIN client'
                 /\ ( calls'[c].resp.kind = "json" /\ calls'[c].resp.body.ok ) =>
                       IF has_result(calls'[c].resp.body)
                       THEN /\ calls'[c].out.kind = "raise"
                            /\ calls'[c].posts = 1
                       ELSE calls'[c].out = [kind |-> "return"]
        /\ "account" \notin DOMAIN client /\ "account" \in DOMAIN client' =>
              \E c \in CallIds : Ends(c) /\ calls'[c].op = "createAccount"
      ]_vars

\* Each of the three has raised on a non-empty result with no Account held.
C10_Witness ==
    /\ "account" \notin DOMAIN client
    /\ \E c \in CallIds :
          /\ Done(c) /\ calls[c].op = "revokeAccessToken"
          /\ GotResult(c)
          /\ calls[c].out.kind = "raise"
          /\ calls[c].posts = 1
    /\ \E c \in CallIds :
          /\ Done(c) /\ calls[c].op = "editAccountInfo"
          /\ GotJson(c) /\ calls[c].resp.body = [ok |-> TRUE]
          /\ calls[c].out = [kind |-> "return"]

====
